---- MODULE Spec2Model ----
(***************************************************************************)
(* Model of larpWikiAnomalyScanner.py: the per-file scan loop of main(),   *)
(* the line detectors, AnomalyOutputter.out and TextEscaper.               *)
(*                                                                         *)
(* A codepoint is a string token: a printable ASCII character stands for   *)
(* itself, other codepoints are named ("TAB" U+0009, "NUL" U+0000, "SHY"   *)
(* U+00AD, "ZWJ" U+200D, "REPL" U+FFFD, "MARK" U+0301, "AACUTE" U+00C1, "BQ" the   *)
(* grave accent U+0060).                                                   *)
(* A text (str) is a sequence of codepoints; columns are 0-based as in the *)
(* source, sequences are 1-based as in TLA+.                               *)
(***************************************************************************)
EXTENDS Integers, Sequences, FiniteSets, TLC

VARIABLES
    pc,                    \* position of main(): "files", "lines", "done", or a call of a pure function
    disk,                  \* the entries of sourceDir: isfile and the bytes of each
    paths,                 \* what is left of glob.iglob(sourceDir/*.txt)
    path,                  \* path of the file being scanned
    textBytes,             \* bytes read from that file
    lines,                 \* its decoded lines
    lineNr,                \* index of the next line of the line loop
    firstDirectiveLine,
    validRedirectPresent,
    fileCount,
    blistedCount,
    ao,                    \* the AnomalyOutputter: counters, lastPath, lastLineNr, quotas
    written,               \* what the latest step passed to ao.out, with what out wrote for it
    opened,                \* history: paths opened with open(path, 'rb')
    anomalousLines,        \* history: <<path, lineNr>> of every event passed to ao.out
    lineHeaders,           \* history: number of '  Line n:' headers written
    last,                  \* history: the step taken last
    call,                  \* arguments of a call of a pure function
    ret                    \* its result

vars == <<pc, disk, paths, path, textBytes, lines, lineNr, firstDirectiveLine,
          validRedirectPresent, fileCount, blistedCount, ao, written, opened,
          anomalousLines, lineHeaders, last, call, ret>>

----------------------------------------------------------------------------
(* Bounds of the model.                                                    *)

MaxTextLen == 4       \* longest text given to escapeLimitRight/Left and to out
MaxQuota == 7         \* largest maxLength / maxPartLength drawn
MaxFileBytes == 3     \* longest generated file, in bytes

----------------------------------------------------------------------------
(* Helpers.                                                                *)

Min2(a, b) == IF a <= b THEN a ELSE b

Max2(a, b) == IF a >= b THEN a ELSE b

MinOf(S) == CHOOSE m \in S : \A n \in S : m <= n

\* Python's text[a:b] for 0 <= a: the bounds are clipped to the text.
Slice(text, a, b) == SubSeq(text, a + 1, Min2(b, Len(text)))

SliceFrom(text, a) == SubSeq(text, a + 1, Len(text))

RECURSIVE Flatten(_)
Flatten(ss) == IF ss = <<>> THEN <<>> ELSE Head(ss) \o Flatten(Tail(ss))

RECURSIVE SeqsUpTo(_, _)
SeqsUpTo(S, n) ==
    IF n = 0 THEN {<<>>}
    ELSE LET shorter == SeqsUpTo(S, n - 1)
         IN  shorter \cup {Append(s, c) : s \in shorter, c \in S}

Contains(text, cp) == \E i \in 1..Len(text) : text[i] = cp

----------------------------------------------------------------------------
(* TextEscaper.                                                            *)

\* repr() of one codepoint without the quotes; the apostrophe is dealt with
\* by escape, because repr chooses its quotes by the whole text.
ReprCp(cp) ==
    CASE cp = "TAB"  -> <<"\\", "t">>
      [] cp = "CR"   -> <<"\\", "r">>
      [] cp = "\\"   -> <<"\\", "\\">>
      [] cp = "NUL"  -> <<"\\", "x", "0", "0">>
      [] cp = "SHY"  -> <<"\\", "x", "a", "d">>
      [] cp = "ZWJ"  -> <<"\\", "u", "2", "0", "0", "d">>
      [] cp = "LRM"  -> <<"\\", "u", "2", "0", "0", "e">>
      [] OTHER       -> <<cp>>

\* escape(text): repr(text)[1:-1].replace('"', '\\"'). repr quotes with ' unless
\* the text holds a ' and no ", and escapes the quote character it chose.
escape(text) ==
    IF Len(text) = 0 THEN <<>>
    ELSE LET aposEscaped == Contains(text, "'") /\ Contains(text, "\"")
             one(cp) == IF cp = "'" THEN (IF aposEscaped THEN <<"\\", "'">> ELSE <<"'">>)
                        ELSE IF cp = "\"" THEN <<"\\", "\"">>
                        ELSE ReprCp(cp)
         IN  Flatten([i \in 1..Len(text) |-> one(text[i])])

RECURSIVE escapeLimitRightLoop(_, _, _, _, _)
escapeLimitRightLoop(text, maxLength, index, buffer, cpCount) ==
    IF index > Len(text) THEN <<buffer, cpCount>>
    ELSE LET cp == escape(<<text[index]>>)
             newLength == Len(buffer) + Len(cp)
         IN  IF newLength > maxLength THEN <<buffer, cpCount>>
             ELSE IF newLength = maxLength THEN <<buffer \o cp, cpCount + 1>>
             ELSE escapeLimitRightLoop(text, maxLength, index + 1, buffer \o cp, cpCount + 1)

\* A slip: the quota is counted in codepoints, not in escaped characters.
RECURSIVE escapeLimitRightRawLoop(_, _, _, _, _)
escapeLimitRightRawLoop(text, maxLength, index, buffer, cpCount) ==
    IF index > Len(text) THEN <<buffer, cpCount>>
    ELSE LET cp == escape(<<text[index]>>)
             newLength == cpCount + 1
         IN  IF newLength > maxLength THEN <<buffer, cpCount>>
             ELSE IF newLength = maxLength THEN <<buffer \o cp, cpCount + 1>>
             ELSE escapeLimitRightRawLoop(text, maxLength, index + 1, buffer \o cp, cpCount + 1)

escapeLimitRightRaw(text, maxLength) ==
    IF maxLength <= 0 THEN <<<<>>, 0>>
    ELSE escapeLimitRightRawLoop(text, maxLength, 1, <<>>, 0)

\* escapeLimitRight(text, maxLength): <<escaped text, codepoints consumed>>.
escapeLimitRight(text, maxLength) ==
    IF maxLength <= 0 THEN <<<<>>, 0>>
    ELSE escapeLimitRightLoop(text, maxLength, 1, <<>>, 0)

\* index is the source's index after "index -= 1", plus one (1-based).
RECURSIVE escapeLimitLeftLoop(_, _, _, _)
escapeLimitLeftLoop(text, maxLength, index, cpList) ==
    IF index < 1 THEN cpList
    ELSE LET cp == escape(<<text[index]>>)
             newLength == Len(Flatten(cpList)) + Len(cp)
         IN  IF newLength > maxLength THEN cpList
             ELSE IF newLength = maxLength THEN <<cp>> \o cpList
             ELSE escapeLimitLeftLoop(text, maxLength, index - 1, <<cp>> \o cpList)

\* escapeLimitLeft(text, maxLength): the same from the right end of the text.
escapeLimitLeft(text, maxLength) ==
    IF maxLength <= 0 THEN <<<<>>, 0>>
    ELSE LET cpList == escapeLimitLeftLoop(text, maxLength, Len(text), <<>>)
         IN  <<Flatten(cpList), Len(cpList)>>

----------------------------------------------------------------------------
(* AnomalyOutputter.                                                       *)

qoute == "\""

ellipsis == "ELLIPSIS"

sol == "|"

eol == "|"

minAfterLength == 20

defaultCols == 80

\* The class attributes, with maxPartLength as main() sets it from cols.
NewAnomalyOutputter(cols) ==
    [pathCount |-> 0, lineCount |-> 0, anomalyCount |-> 0,
     anomalyCounts |-> [k \in {} |-> 0],
     lastPath |-> "", lastLineNr |-> 0,
     maxPartLength |-> cols - 11, minAfterLength |-> minAfterLength]

\* A slip: the quota left is reduced by the codepoints shown, not by their escaped text.
quotaLeftRaw(ml, t) == Max2(0, ml - t[2])

\* ml = max(0, ml - len(part)), and the same after "before"; t is an escapeLimit result.
quotaLeft(ml, t) == Max2(0, ml - Len(t[1]))

\* mal: the quota reserved for the text after the anomaly.
afterQuota(partComplete, line, endColumn, ml, minAfter) ==
    IF partComplete
    THEN Min2(Min2(Len(line) - endColumn, ml \div 2), minAfter)
    ELSE 0

\* A slip: the escaped length of "before" is taken for the codepoints it holds.
solMarkerEscaped(startColumn, t) ==
    IF startColumn - Len(t[1]) > 0 THEN ellipsis ELSE sol

\* The start marker; t is the escapeLimitLeft result for the text before.
solMarker(startColumn, t) ==
    IF startColumn - t[2] > 0 THEN ellipsis ELSE sol

\* The end marker.
eolMarker(startColumn, partCpLength, afterCpLength, line) ==
    IF (startColumn + partCpLength + afterCpLength) < Len(line) THEN ellipsis ELSE eol

\* The excerpt part of out: the markers and the three escaped texts.
Excerpt(line, startColumn, endColumn, maxPartLength, minAfter) ==
    LET tPart == escapeLimitRight(Slice(line, startColumn, endColumn), maxPartLength)
        partCpLength == tPart[2]
        partComplete == ((endColumn - startColumn - partCpLength) = 0)
        ml1 == quotaLeft(maxPartLength, tPart)
        mal == afterQuota(partComplete, line, endColumn, ml1, minAfter)
        bLength == Min2(startColumn, ml1 - mal)
        tBefore == escapeLimitLeft(Slice(line, 0, startColumn), bLength)
        ml2 == quotaLeft(ml1, tBefore)
        tAfter == IF partComplete
                  THEN escapeLimitRight(SliceFrom(line, endColumn), ml2)
                  ELSE <<<<>>, 0>>
    IN  [sol |-> solMarker(startColumn, tBefore),
         before |-> tBefore[1],
         part |-> tPart[1],
         after |-> tAfter[1],
         eol |-> eolMarker(startColumn, partCpLength, tAfter[2], line)]

\* out(path, lineNr, startColumn, endColumn, line, anomaly): the outputter after
\* the call, and what the call wrote.
Out(o, p, nr, startColumn, endColumn, line, anomaly) ==
    LET pathHeader == (o.lastPath # p)
        lineHeader == (o.lastLineNr # nr)
        counts == o.anomalyCounts
        o2 == [o EXCEPT
                 !.lastPath = p,
                 !.pathCount = IF pathHeader THEN @ + 1 ELSE @,
                 !.lineCount = IF lineHeader THEN @ + 1 ELSE @,
                 !.lastLineNr = nr,
                 !.anomalyCount = @ + 1,
                 !.anomalyCounts =
                     [k \in DOMAIN counts \cup {anomaly} |->
                         IF k \in DOMAIN counts THEN
                             (IF k = anomaly THEN counts[k] + 1 ELSE counts[k])
                         ELSE 1]]
    IN  [ao |-> o2,
         w |-> [path |-> p, lineNr |-> nr, startColumn |-> startColumn,
                endColumn |-> endColumn, line |-> line, anomaly |-> anomaly,
                pathHeader |-> pathHeader, lineHeader |-> lineHeader,
                excerpt |-> Excerpt(line, startColumn, endColumn,
                                    o.maxPartLength, o.minAfterLength)]]

----------------------------------------------------------------------------
(* Calls of the pure functions on drawn arguments.                         *)

\* Codepoints whose escaped forms are 1, 2, 4 and 6 characters long.
EscChars == {"a", "\"", "NUL", "ZWJ"}

OutChars == {"a", "TAB", "NUL"}

Rep(cp, n) == [i \in 1..n |-> cp]

\* Lines longer than twice minAfterLength, so that the reserve for the text
\* after the anomaly is decided by minAfterLength.
LongLines == {Rep("a", 50), Rep("a", 24) \o <<"NUL", "TAB">> \o Rep("a", 24)}

\* Terminal widths: those that leave a quota of 1..MaxQuota, and the default.
ColsDrawn == {q + 11 : q \in 1..MaxQuota} \cup {defaultCols}

MainIdle ==
    /\ disk = <<>>
    /\ paths = <<>>
    /\ path = ""
    /\ textBytes = <<>>
    /\ lines = <<>>
    /\ lineNr = 0
    /\ firstDirectiveLine = 1
    /\ validRedirectPresent = FALSE
    /\ fileCount = 0
    /\ blistedCount = 0
    /\ written = <<>>
    /\ opened = {}
    /\ anomalousLines = {}
    /\ lineHeaders = 0
    /\ last = "init"

mainVars == <<disk, paths, path, textBytes, lines, lineNr, firstDirectiveLine,
              validRedirectPresent, fileCount, blistedCount, opened,
              anomalousLines, lineHeaders>>

InitEsc ==
    /\ MainIdle
    /\ pc = "call"
    /\ ao = NewAnomalyOutputter(defaultCols)
    /\ call \in [fn : {"escapeLimitRight", "escapeLimitLeft"},
                 text : SeqsUpTo(EscChars, MaxTextLen),
                 maxLength : 0..MaxQuota]
    /\ ret = <<>>

CallEscapeLimitRight ==
    /\ pc = "call"
    /\ call.fn = "escapeLimitRight"
    /\ ret' = escapeLimitRight(call.text, call.maxLength)
    /\ pc' = "returned"
    /\ last' = "call"
    /\ UNCHANGED <<mainVars, ao, written, call>>

CallEscapeLimitLeft ==
    /\ pc = "call"
    /\ call.fn = "escapeLimitLeft"
    /\ ret' = escapeLimitLeft(call.text, call.maxLength)
    /\ pc' = "returned"
    /\ last' = "call"
    /\ UNCHANGED <<mainVars, ao, written, call>>

NextEsc == CallEscapeLimitRight \/ CallEscapeLimitLeft

SpecEsc == InitEsc /\ [][NextEsc]_vars

InitOut ==
    /\ MainIdle
    /\ pc = "call"
    /\ \E cols \in ColsDrawn : ao = NewAnomalyOutputter(cols)
    /\ \E l \in SeqsUpTo(OutChars, MaxTextLen) \cup LongLines :
         \E s \in 0..Len(l) : \E e \in s..(Len(l) + 1) :
            call = [fn |-> "out", line |-> l, startColumn |-> s, endColumn |-> e]
    /\ ret = <<>>

CallOut ==
    /\ pc = "call"
    /\ call.fn = "out"
    /\ LET r == Out(ao, "backup/A.txt", 1, call.startColumn, call.endColumn,
                    call.line, "Old wiki list")
       IN  /\ ao' = r.ao
           /\ written' = <<r.w>>
    /\ pc' = "returned"
    /\ last' = "call"
    /\ UNCHANGED <<mainVars, call, ret>>

NextOut == CallOut

SpecOut == InitOut /\ [][NextOut]_vars

----------------------------------------------------------------------------
(* Claims about the excerpt and the truncation functions.                  *)

\* The escaped form of a text, codepoint by codepoint.
EscapedForm(text) == Flatten([i \in 1..Len(text) |-> escape(<<text[i]>>)])

ExcerptLen(x) == Len(x.before) + Len(x.part) + Len(x.after)

\* C1: whatever the line, the column range and maxPartLength >= 1, the
\* escaped texts before + part + after of an excerpt written by out are
\* together at most maxPartLength characters long.
C1_ExcerptWithinBudget ==
    (pc = "returned" /\ call.fn = "out") =>
        \A i \in 1..Len(written) :
            ExcerptLen(written[i].excerpt) <= ao.maxPartLength

\* C1 witness: an excerpt that uses its whole budget, cut on both sides and
\* holding an escape sequence in the anomaly.
C1_Witness ==
    /\ pc = "returned"
    /\ call.fn = "out"
    /\ Len(written) = 1
    /\ ExcerptLen(written[1].excerpt) = ao.maxPartLength
    /\ written[1].excerpt.sol = ellipsis
    /\ written[1].excerpt.eol = ellipsis
    /\ Len(written[1].excerpt.part) > call.endColumn - call.startColumn
    /\ written[1].excerpt.after # <<>>

\* C2: the start marker is the ellipsis exactly when the excerpt starts after
\* column 0 of the line, and the end marker is the ellipsis exactly when the
\* excerpt stops before the end of the line; a and b are the columns between
\* which the escaped texts written are the escaped form of the line.
C2_MarkersTellCuts ==
    (pc = "returned" /\ call.fn = "out") =>
        \A i \in 1..Len(written) :
            LET w == written[i]
                x == w.excerpt
                n == Len(w.line)
            IN  /\ \E a \in 0..w.startColumn :
                      /\ EscapedForm(Slice(w.line, a, w.startColumn)) = x.before
                      /\ (x.sol = ellipsis) <=> (a > 0)
                      /\ (x.sol = sol) <=> (a = 0)
                /\ \E b \in w.startColumn..n :
                      /\ EscapedForm(Slice(w.line, w.startColumn, b)) = x.part \o x.after
                      /\ (x.eol = ellipsis) <=> (b < n)
                      /\ (x.eol = eol) <=> (b = n)

\* C2 witness: an excerpt cut at its start, where the text before the anomaly
\* is longer escaped than in codepoints, and reaching the end of the line.
C2_Witness ==
    /\ pc = "returned"
    /\ call.fn = "out"
    /\ Len(written) = 1
    /\ written[1].excerpt.sol = ellipsis
    /\ written[1].excerpt.eol = eol
    /\ Len(written[1].excerpt.before) >= 4
    /\ Len(written[1].excerpt.before) < call.startColumn + 3
    /\ written[1].excerpt.after # <<>>

\* C10: escapeLimitRight returns the escaped form of the longest prefix, and
\* escapeLimitLeft of the longest suffix, whose escaped length is at most the
\* budget (>= 0), with the number of codepoints of it; a text that fits is
\* returned whole.
C10_LongestFit ==
    (pc = "returned" /\ call.fn \in {"escapeLimitRight", "escapeLimitLeft"}) =>
        LET text == call.text
            n == ret[2]
            len == Len(text)
            kept(k) == IF call.fn = "escapeLimitRight"
                       THEN SubSeq(text, 1, k)
                       ELSE SubSeq(text, len - k + 1, len)
        IN  /\ n \in 0..len
            /\ ret[1] = EscapedForm(kept(n))
            /\ Len(ret[1]) <= call.maxLength
            /\ (n < len) => (Len(EscapedForm(kept(n + 1))) > call.maxLength)
            /\ (Len(EscapedForm(text)) <= call.maxLength) =>
                   (n = len /\ ret[1] = EscapedForm(text))

\* C10 witness: escapeLimitLeft cut a text, kept more than one codepoint and
\* returned more characters than codepoints.
C10_Witness ==
    /\ pc = "returned"
    /\ call.fn = "escapeLimitLeft"
    /\ ret[2] < Len(call.text)
    /\ ret[2] > 1
    /\ Len(ret[1]) > ret[2]
    /\ Len(ret[1]) < call.maxLength

----------------------------------------------------------------------------
(* Codepoints and the regular expressions of main(), as what re does with  *)
(* them on a line (no line holds a line feed).                             *)

LowerSeq == <<"a", "b", "c", "d", "e", "f", "g", "h", "i", "j", "k", "l", "m",
              "n", "o", "p", "q", "r", "s", "t", "u", "v", "w", "x", "y", "z">>

UpperSeq == <<"A", "B", "C", "D", "E", "F", "G", "H", "I", "J", "K", "L", "M",
              "N", "O", "P", "Q", "R", "S", "T", "U", "V", "W", "X", "Y", "Z">>

Range(f) == {f[i] : i \in DOMAIN f}

\* re.IGNORECASE compares codepoints by their lower case.
Lower(cp) ==
    IF cp \in Range(UpperSeq)
    THEN LowerSeq[CHOOSE i \in DOMAIN UpperSeq : UpperSeq[i] = cp]
    ELSE cp

LowerText(text) == [i \in 1..Len(text) |-> Lower(text[i])]

\* unicodedata.category(cp).
category(cp) ==
    CASE cp \in Range(LowerSeq) -> "Ll"
      [] cp \in Range(UpperSeq) \cup {"AACUTE"} -> "Lu"
      [] cp \in {"0", "1", "2", "3", "4", "5", "6", "7", "8", "9"} -> "Nd"
      [] cp = " " -> "Zs"
      [] cp \in {"TAB", "NUL", "CR"} -> "Cc"
      [] cp \in {"SHY", "ZWJ", "LRM"} -> "Cf"
      [] cp = "MARK" -> "Mn"
      [] cp = "REPL" -> "So"
      [] cp \in {"=", "<", ">", "+", "|", "~"} -> "Sm"
      [] cp \in {"BQ", "^"} -> "Sk"
      [] cp = "$" -> "Sc"
      [] cp \in {"(", "[", "{"} -> "Ps"
      [] cp \in {")", "]", "}"} -> "Pe"
      [] cp = "-" -> "Pd"
      [] cp = "_" -> "Pc"
      [] cp \in {"#", "*", ":", ";", "\"", "'", "/", "\\", "!", ".", ",",
                 "?", "@", "%", "&"} -> "Po"
      [] OTHER -> "Cn"

\* cpCat[0].
categoryMain(cp) ==
    LET cat == category(cp)
    IN  CASE cat \in {"Ll", "Lu"} -> "L"
          [] cat = "Nd" -> "N"
          [] cat = "Zs" -> "Z"
          [] cat \in {"Cc", "Cf", "Cn"} -> "C"
          [] cat = "Mn" -> "M"
          [] cat \in {"So", "Sm", "Sk", "Sc"} -> "S"
          [] OTHER -> "P"

\* unicodedata.name(cp, 'unnamed') of the codepoints that are reported.
cpName(cp) ==
    CASE cp = "MARK" -> "COMBINING ACUTE ACCENT"
      [] cp = "REPL" -> "REPLACEMENT CHARACTER"
      [] OTHER -> "unnamed"

\* What \s matches among the codepoints of a line.
SpaceChars == {" ", "TAB", "CR"}

At(line, i) == line[i + 1]

\* The column where the run of codepoints of S that starts at column i ends.
RunEnd(line, i, S) ==
    MinOf({j \in i..Len(line) : j = Len(line) \/ At(line, j) \notin S})

\* The same for the codepoints outside S.
RunEndNot(line, i, S) ==
    MinOf({j \in i..Len(line) : j = Len(line) \/ At(line, j) \in S})

StartsWith(line, prefix) ==
    Len(line) >= Len(prefix) /\ SubSeq(line, 1, Len(prefix)) = prefix

\* text at column i, compared ignoring case
HasAt(line, i, text) ==
    /\ Len(line) >= i + Len(text)
    /\ LowerText(SubSeq(line, i + 1, i + Len(text))) = text

RECURSIVE JoinStr(_)
JoinStr(text) == IF text = <<>> THEN "" ELSE Head(text) \o JoinStr(Tail(text))

Ev(startColumn, endColumn, anomaly) ==
    [startColumn |-> startColumn, endColumn |-> endColumn, anomaly |-> anomaly]

NoMatch == [matched |-> FALSE]

\* re.finditer: the matches from left to right, none overlapping another.
\* MatchAt(line, pos) is the match that starts at column pos, if any.
RECURSIVE FindIter(_, _, _)
FindIter(MatchAt(_, _), line, pos) ==
    IF pos > Len(line) THEN <<>>
    ELSE LET m == MatchAt(line, pos)
         IN  IF m.matched
             THEN <<m>> \o FindIter(MatchAt, line, IF m.end > pos THEN m.end ELSE pos + 1)
             ELSE FindIter(MatchAt, line, pos + 1)

\* Obscure code points: the loop over the codepoints of a line.
RECURSIVE ObscureCodePoints(_, _, _)
ObscureCodePoints(line, cpIndex, markAllowed) ==
    IF cpIndex >= Len(line) THEN <<>>
    ELSE LET cp == At(line, cpIndex)
             cpCatMain == categoryMain(cp)
             allowed == cpCatMain \in {"L", "N", "P", "S", "Z"}
                        \/ cp \in {"TAB", "SHY", "ZWJ", "LRM"}
             reported == IF cp = "REPL" THEN TRUE ELSE ~allowed
             unexpectedMark == (cpCatMain = "M") /\ ~markAllowed
             anomaly == IF cpCatMain = "M" THEN ~markAllowed ELSE reported
             nextAllowed == IF cpCatMain = "M" THEN markAllowed ELSE (cpCatMain = "L")
             msg == "Unicode " \o JoinStr(escape(<<cp>>)) \o " (" \o cpName(cp)
                    \o ", category " \o category(cp) \o ")"
                    \o (IF unexpectedMark THEN " not preceded by a letter" ELSE "")
         IN  (IF anomaly THEN <<Ev(cpIndex, cpIndex + 1, msg)>> ELSE <<>>)
             \o ObscureCodePoints(line, cpIndex + 1, nextAllowed)

\* rec.match(r'(\*|#(\*|#(\*|#)))[*#]*', line)
OldWikiListMatch(line) ==
    IF \/ StartsWith(line, <<"*">>)
       \/ StartsWith(line, <<"#", "*">>)
       \/ StartsWith(line, <<"#", "#", "*">>)
       \/ StartsWith(line, <<"#", "#", "#">>)
    THEN [matched |-> TRUE, start |-> 0, end |-> RunEnd(line, 0, {"*", "#"})]
    ELSE NoMatch

\* A slip: the whitespace around the content is not left out.
AfterRedirectMatchWholeLine(line) ==
    IF RunEnd(line, 0, SpaceChars) < Len(line)
    THEN [matched |-> TRUE, start |-> 0, end |-> Len(line)]
    ELSE NoMatch

\* rec.match(r'\s*(\S.*?)\s*$', line): group 1 runs from the first to the last
\* codepoint that is not whitespace.
AfterRedirectMatch(line) ==
    LET cols == {i \in 0..(Len(line) - 1) : At(line, i) \notin SpaceChars}
    IN  IF cols = {} THEN NoMatch
        ELSE [matched |-> TRUE,
              start |-> MinOf(cols),
              end |-> 1 + CHOOSE i \in cols : \A j \in cols : j <= i]

\* rec.match(r'#REDIRECT(\s*)(?P<name>.*)', line)
RedirectMatch(line) ==
    IF StartsWith(line, <<"#", "R", "E", "D", "I", "R", "E", "C", "T">>)
    THEN [matched |-> TRUE, name |-> SliceFrom(line, RunEnd(line, 9, SpaceChars))]
    ELSE NoMatch

\* rec.match(r'^(?P<firstChar>[:;])((?P<extraChars>[:;]*)|($|[^-\(\{\[\|\)\}\]pPD]))', line):
\* the alternative (?P<extraChars>[:;]*) matches the empty text too and comes
\* first, so the alternative that excludes the smilies is never tried.
FirstCharMatch(line) ==
    IF Len(line) >= 1 /\ At(line, 0) \in {":", ";"}
    THEN [matched |-> TRUE, firstChar |-> At(line, 0),
          extraChars |-> SubSeq(line, 2, RunEnd(line, 1, {":", ";"}))]
    ELSE NoMatch

TagNames == {<<"b">>, <<"i">>, <<"n", "o", "w", "i", "k", "i">>, <<"p", "r", "e">>,
             <<"t", "o", "c">>, <<"t", "t">>}

\* r'<(?P<close>[/]?)(?P<name>(b|i|nowiki|pre|toc|tt))>' with re.IGNORECASE, at column pos.
OldWikiTagAt(line, pos) ==
    IF pos < Len(line) /\ At(line, pos) = "<"
    THEN LET closing == (pos + 1 < Len(line)) /\ (At(line, pos + 1) = "/")
             nameStart == IF closing THEN pos + 2 ELSE pos + 1
             names == {n \in TagNames : /\ HasAt(line, nameStart, n)
                                        /\ nameStart + Len(n) < Len(line)
                                        /\ At(line, nameStart + Len(n)) = ">"}
         IN  IF names = {} THEN NoMatch
             ELSE LET n == CHOOSE n \in names : TRUE
                  IN  [matched |-> TRUE, start |-> pos, end |-> nameStart + Len(n) + 1,
                       close |-> closing,
                       name |-> SubSeq(line, nameStart + 1, nameStart + Len(n))]
    ELSE NoMatch

OldWikiTags(line) ==
    LET matches == FindIter(OldWikiTagAt, line, 0)
    IN  [i \in 1..Len(matches) |->
            Ev(matches[i].start, matches[i].end,
               "Old wiki tag " \o JoinStr(matches[i].name) \o " "
               \o (IF matches[i].close THEN "close" ELSE "open"))]

\* r'(?P<open><[<BQ]*)(?P<name>br)(?P<close>[>BQ]*>)' with re.IGNORECASE, at column
\* pos: close is the run of > and BQ after the name, up to its last >.
LinebreakAt(line, pos) ==
    IF pos < Len(line) /\ At(line, pos) = "<"
    THEN LET nameStart == RunEnd(line, pos + 1, {"<", "BQ"})
             runEnd == RunEnd(line, nameStart + 2, {">", "BQ"})
             closers == {j \in (nameStart + 2)..(runEnd - 1) : At(line, j) = ">"}
         IN  IF HasAt(line, nameStart, <<"b", "r">>) /\ closers # {}
             THEN LET end == 1 + CHOOSE j \in closers : \A k \in closers : k <= j
                  IN  [matched |-> TRUE, start |-> pos, end |-> end,
                       open |-> Slice(line, pos, nameStart),
                       name |-> Slice(line, nameStart, nameStart + 2),
                       close |-> Slice(line, nameStart + 2, end)]
             ELSE NoMatch
    ELSE NoMatch

\* The loop over the <<BR>> matches: each "continue" goes on with the next match.
Linebreaks(line) ==
    LET matches == FindIter(LinebreakAt, line, 0)
        one(m) ==
            IF (m.open = <<"<">>) /\ (m.close = <<">">>)
            THEN <<Ev(m.start, m.end, "Old wiki linebreak")>>
            ELSE IF /\ m.open = <<"<", "<">>
                    /\ Slice(m.close, 0, 2) = <<">", ">">>
                    /\ m.name # <<"B", "R">>
            THEN <<Ev(m.start, m.end, "Invalid linebreak")>>
            ELSE <<>>
    IN  Flatten([i \in 1..Len(matches) |-> one(matches[i])])

\* Whether line[p:] is whitespace, then a run of =, then whitespace.
HeadlineTail(line, p) ==
    LET a == RunEnd(line, p, SpaceChars)
        b == RunEnd(line, a, {"="})
    IN  RunEnd(line, b, SpaceChars) = Len(line)

\* The headline expression: every group but text is greedy and what follows
\* text can match the empty rest, so each group takes its whole run and text
\* is the shortest text after which only whitespace, = and whitespace follow.
\* Groups are given by the column where each starts.
HeadlineMatch(line) ==
    LET openTagStart == RunEnd(line, 0, SpaceChars)
        openTagEnd == RunEnd(line, openTagStart, {"="})
        nIndicatorStart == RunEnd(line, openTagEnd, SpaceChars)
        nIndicatorEnd == RunEnd(line, nIndicatorStart, {"#", "*"})
        textStart == RunEnd(line, nIndicatorEnd, SpaceChars)
        textEnd == MinOf({p \in textStart..Len(line) : HeadlineTail(line, p)})
        closeTagStart == RunEnd(line, textEnd, SpaceChars)
        closeTagEnd == RunEnd(line, closeTagStart, {"="})
    IN  IF openTagEnd > openTagStart
        THEN [matched |-> TRUE,
              openTagStart |-> openTagStart, openTagEnd |-> openTagEnd,
              nIndicatorStart |-> nIndicatorStart, nIndicatorEnd |-> nIndicatorEnd,
              textStart |-> textStart, textEnd |-> textEnd,
              closeTagStart |-> closeTagStart, closeTagEnd |-> closeTagEnd]
        ELSE NoMatch

\* A run of two or more BQ or ' at column pos of the headline text.
MarkupAt(text, pos) ==
    LET end == RunEnd(text, pos, {"BQ", "'"})
    IN  IF end - pos >= 2 THEN [matched |-> TRUE, start |-> pos, end |-> end]
        ELSE NoMatch

\* A slip: the check of the whitespace before the close tag is left out.
HeadlineCloseChecksNoSpace(line, m) ==
    (IF (m.openTagEnd - m.openTagStart) # (m.closeTagEnd - m.closeTagStart)
     THEN <<Ev(m.closeTagStart, m.closeTagEnd,
               "Headline with different length open and close tags")>>
     ELSE <<>>)
    \o (IF m.closeTagEnd < Len(line)
        THEN <<Ev(m.closeTagEnd, Len(line), "Headline ends with whitespace")>>
        ELSE <<>>)

\* The checks of a headline that has text and a close tag.
HeadlineCloseChecks(line, m) ==
    (IF (m.openTagEnd - m.openTagStart) # (m.closeTagEnd - m.closeTagStart)
     THEN <<Ev(m.closeTagStart, m.closeTagEnd,
               "Headline with different length open and close tags")>>
     ELSE <<>>)
    \o (IF m.closeTagStart = m.textEnd
        THEN <<Ev(m.closeTagStart, m.closeTagStart + 1,
                  "Headline without whitespace before close tag")>>
        ELSE <<>>)
    \o (IF m.closeTagEnd < Len(line)
        THEN <<Ev(m.closeTagEnd, Len(line), "Headline ends with whitespace")>>
        ELSE <<>>)

\* The checks of a headline that has text.
HeadlineTextChecks(line, m) ==
    LET text == Slice(line, m.textStart, m.textEnd)
        iMatches == FindIter(MarkupAt, text, 0)
        hasIndicator == m.nIndicatorEnd > m.nIndicatorStart
    IN  [i \in 1..Len(iMatches) |->
            Ev(m.textStart + iMatches[i].start, m.textStart + iMatches[i].end,
               "Headline text contains markup")]
        \o (IF m.nIndicatorStart = m.openTagEnd
            THEN LET start == IF hasIndicator THEN m.nIndicatorStart ELSE m.textStart
                 IN  <<Ev(start, start + 1, "Headline without whitespace after open tag")>>
            ELSE <<>>)
        \o (IF hasIndicator
            THEN <<Ev(m.nIndicatorStart, m.nIndicatorEnd,
                      "Headline with old numbering indicator")>>
            ELSE <<>>)
        \o (IF m.closeTagEnd = m.closeTagStart
            THEN <<Ev(Len(line) - 1, Len(line), "Headline without close tag")>>
            ELSE HeadlineCloseChecks(line, m))

\* Headlines: the expression is anchored at both ends, so there is one match at most.
Headlines(line) ==
    LET m == HeadlineMatch(line)
    IN  IF ~m.matched THEN <<>>
        ELSE (IF m.openTagStart > 0
              THEN <<Ev(0, m.openTagStart, "Headline starts with whitespace")>>
              ELSE <<>>)
             \o (IF m.openTagEnd - m.openTagStart > 5
                 THEN <<Ev(m.openTagStart, m.openTagEnd, "Headline of level > 5")>>
                 ELSE <<>>)
             \o (IF m.textEnd > m.textStart
                 THEN HeadlineTextChecks(line, m)
                 ELSE <<Ev(m.openTagEnd - 1, Len(line), "Headline contains no text")>>)

\* Where the link expression can end when linkUrl ends at column e: after
\* whitespace and an optional quote, at the last ] of the run of ] and BQ.
\* -1 when it cannot.
LinkEndFrom(line, e) ==
    LET w == RunEnd(line, e, SpaceChars)
        q == IF w < Len(line) /\ At(line, w) = "\"" THEN w + 1 ELSE w
        runEnd == RunEnd(line, q, {"]", "BQ"})
        closers == {j \in q..(runEnd - 1) : At(line, j) = "]"}
    IN  IF closers = {} THEN -1
        ELSE 1 + CHOOSE j \in closers : \A k \in closers : k <= j

\* The link expression at column pos: the groups before linkUrl are greedy and
\* hold no ], and linkUrl is the shortest text after which the rest matches.
LinkAt(line, pos) ==
    IF pos < Len(line) /\ At(line, pos) = "["
    THEN LET openEnd == RunEnd(line, pos + 1, {"[", "BQ"})
             openQuote == openEnd < Len(line) /\ At(line, openEnd) = "\""
             urlStart == RunEnd(line, IF openQuote THEN openEnd + 1 ELSE openEnd, SpaceChars)
             urlEnds == {e \in urlStart..Len(line) : LinkEndFrom(line, e) >= 0}
         IN  IF urlEnds = {} THEN NoMatch
             ELSE [matched |-> TRUE, start |-> pos,
                   end |-> LinkEndFrom(line, MinOf(urlEnds)),
                   openBrackets |-> Slice(line, pos, openEnd),
                   openQuote |-> openQuote,
                   linkUrl |-> Slice(line, urlStart, MinOf(urlEnds))]
    ELSE NoMatch

Links(line) ==
    LET matches == FindIter(LinkAt, line, 0)
        one(m) ==
            IF m.openQuote
            THEN <<Ev(m.start, m.end, "Fail-converted unnamed internal link")>>
            ELSE IF (Len(m.openBrackets) = 1) /\ Contains(m.linkUrl, ":")
            THEN <<Ev(m.start, m.end, "Fail-converted external link")>>
            ELSE <<>>
    IN  Flatten([i \in 1..Len(matches) |-> one(matches[i])])

\* 'upload:\S+' at column s
UploadLinkAt(line, s) ==
    /\ HasAt(line, s, <<"u", "p", "l", "o", "a", "d", ":">>)
    /\ s + 7 < Len(line)
    /\ At(line, s + 7) \notin SpaceChars

\* r'(^|\s)(?P<link>upload:\S+)(\s|$)' with re.I, at column pos: the match takes
\* the whitespace before and one whitespace after the link.
UploadAt(line, pos) ==
    LET start == IF pos = 0 /\ UploadLinkAt(line, 0) THEN 0
                 ELSE IF pos < Len(line) /\ At(line, pos) \in SpaceChars
                         /\ UploadLinkAt(line, pos + 1) THEN pos + 1
                 ELSE -1
    IN  IF start < 0 THEN NoMatch
        ELSE LET linkEnd == RunEndNot(line, start + 7, SpaceChars)
             IN  [matched |-> TRUE, start |-> start, linkEnd |-> linkEnd,
                  end |-> IF linkEnd < Len(line) THEN linkEnd + 1 ELSE linkEnd]

OldWikiUploads(line) ==
    LET matches == FindIter(UploadAt, line, 0)
    IN  [i \in 1..Len(matches) |->
            Ev(matches[i].start, matches[i].linkEnd, "Old wiki upload link")]

----------------------------------------------------------------------------
(* main(): one pass of the line loop.                                      *)

\* A slip: the first linebreak anomaly ends the work on the line.
ContentChainStopAtLinebreak(line) ==
    IF Linebreaks(line) # <<>>
    THEN OldWikiTags(line) \o <<Head(Linebreaks(line))>>
    ELSE OldWikiTags(line) \o Headlines(line) \o Links(line) \o OldWikiUploads(line)

\* The detectors that run on a line that is no comment, no directive and has
\* no leading : or ;, in the order of the source.
ContentChain(line) ==
    OldWikiTags(line) \o Linebreaks(line) \o Headlines(line) \o Links(line)
    \o OldWikiUploads(line)

\* The body of "for lineNr, line in enumerate(lines)": the events in the
\* order of the ao.out calls, and the redirect state after the line.
LineScan(line, nr, fdl, vrp) ==
    LET list == OldWikiListMatch(line)
        commentLine == IF list.matched THEN FALSE ELSE StartsWith(line, <<"#", "#">>)
        directiveLine == IF list.matched THEN FALSE
                         ELSE ~StartsWith(line, <<"#", "#">>) /\ StartsWith(line, <<"#">>)
        head == ObscureCodePoints(line, 0, FALSE)
                \o (IF list.matched
                    THEN <<Ev(list.start, list.end, "Old wiki list")>>
                    ELSE <<>>)
        \* "Determine first directive line", which follows "if commentLine: continue"
        fdl2 == IF (fdl = nr) /\ commentLine THEN fdl + 1 ELSE fdl
        after == AfterRedirectMatch(line)
        redirect == RedirectMatch(line)
        first == FirstCharMatch(line)
        result(events, v) == [events |-> head \o events, firstDirectiveLine |-> fdl2,
                              validRedirectPresent |-> v]
    IN  IF commentLine
        THEN [events |-> head, firstDirectiveLine |-> fdl, validRedirectPresent |-> vrp]
        ELSE IF vrp /\ ~directiveLine /\ after.matched
        THEN result(<<Ev(after.start, after.end,
                         "Non-empty non-comment line after valid redirect")>>, vrp)
        ELSE IF redirect.matched
        THEN IF fdl2 # 0
             THEN IF redirect.name = <<>>
                  THEN result(<<Ev(0, Len(line), "Redirect without target")>>, vrp)
                  ELSE result(<<>>, TRUE)
             ELSE result(<<Ev(0, Len(line), "Redirect in non-first line")>>, vrp)
        ELSE IF directiveLine
        THEN result(<<>>, vrp)
        ELSE IF first.matched
        THEN result(<<Ev(0, 1 + Len(first.extraChars),
                         IF first.firstChar = ":" THEN "Old wiki indenting"
                         ELSE "Old wiki definition list")>>, vrp)
        ELSE result(ContentChain(line), vrp)

----------------------------------------------------------------------------
(* main(): reading and decoding a file.                                    *)

ContBytes == {"x80", "x81", "x8D", "xBD", "xBF"}

\* The bytes a byte of a file announces, itself included; 0 for a byte that
\* cannot start a codepoint. A byte that is no token of the form xHH is ASCII.
SequenceLength(byte) ==
    CASE byte \in {"xC3", "xCC"} -> 2
      [] byte \in {"xE2", "xEF"} -> 3
      [] byte \in ContBytes \cup {"xFF"} -> 0
      [] OTHER -> 1

\* The codepoint of a complete sequence of bytes.
Utf8Char(bytes) ==
    CASE Len(bytes) = 1 -> bytes[1]
      [] bytes = <<"xC3", "x81">> -> "AACUTE"
      [] bytes = <<"xCC", "x81">> -> "MARK"
      [] bytes = <<"xE2", "x80", "x8D">> -> "ZWJ"
      [] bytes = <<"xEF", "xBF", "xBD">> -> "REPL"
      [] OTHER -> "U+XXXX"

\* The loop "for i in range(0, len(textBytes))" with the incremental decoder,
\* which is never told that the input has ended (i never equals lastI):
\* pending are the bytes the decoder holds back, lns and line as in the source.
RECURSIVE DecodeLoop(_, _, _, _, _)
DecodeLoop(bytes, i, pending, lns, line) ==
    IF i > Len(bytes)
    THEN [invalidEncoding |-> FALSE, lines |-> lns, line |-> line]
    ELSE LET byte == bytes[i]
             error == [invalidEncoding |-> TRUE, lines |-> lns, line |-> line]
             got(cp) ==
                 IF cp = "LF"
                 THEN DecodeLoop(bytes, i + 1, <<>>,
                                 Append(lns, IF line # <<>> /\ line[Len(line)] = "CR"
                                             THEN SubSeq(line, 1, Len(line) - 1)
                                             ELSE line),
                                 <<>>)
                 ELSE DecodeLoop(bytes, i + 1, <<>>, lns, Append(line, cp))
         IN  IF pending = <<>>
             THEN IF SequenceLength(byte) = 0 THEN error
                  ELSE IF SequenceLength(byte) = 1 THEN got(Utf8Char(<<byte>>))
                  ELSE DecodeLoop(bytes, i + 1, <<byte>>, lns, line)
             ELSE IF byte \notin ContBytes THEN error
                  ELSE IF Len(pending) + 1 = SequenceLength(pending[1])
                  THEN got(Utf8Char(Append(pending, byte)))
                  ELSE DecodeLoop(bytes, i + 1, Append(pending, byte), lns, line)

Decode(bytes) == DecodeLoop(bytes, 1, <<>>, <<>>, <<>>)

\* The arguments of the ao.out call that reports the invalid byte.
InvalidEncodingEvent(d) ==
    [lineNr |-> Len(d.lines) + 1, startColumn |-> Len(d.line),
     endColumn |-> Len(d.line) + 1, line |-> d.line,
     anomaly |-> "UTF-8 invalid byte while decoding line!"]

----------------------------------------------------------------------------
(* main(): the loop over the files.                                        *)

\* os.path.dirname(__file__) of a script started from its own directory.
baseDir == ""

PathJoin(a, b) == IF a = "" THEN b ELSE a \o "/" \o b

sourceDir == PathJoin(baseDir, "backup")

blacklist == {"HilfeZurCreoleSyntax.txt"}

\* ao.out called for each event of a line, in order: the outputter after the
\* calls and what each call wrote.
RECURSIVE OutAll(_, _, _, _, _)
OutAll(o, p, nr, line, events) ==
    IF events = <<>> THEN [ao |-> o, w |-> <<>>]
    ELSE LET r == Out(o, p, nr, Head(events).startColumn, Head(events).endColumn,
                      line, Head(events).anomaly)
             rest == OutAll(r.ao, p, nr, line, Tail(events))
         IN  [ao |-> rest.ao, w |-> <<r.w>> \o rest.w]

LineHeadersIn(w) == Cardinality({i \in 1..Len(w) : w[i].lineHeader})

\* History of what ao.out was given and wrote.
Record(w) ==
    /\ written' = w
    /\ anomalousLines' = anomalousLines \cup {<<w[i].path, w[i].lineNr>> : i \in 1..Len(w)}
    /\ lineHeaders' = lineHeaders + LineHeadersIn(w)

fileVars == <<path, textBytes, lines, lineNr, firstDirectiveLine, validRedirectPresent>>

\* "if not os.path.isfile(path): continue"
SkipNotFile ==
    /\ pc = "files"
    /\ paths # <<>>
    /\ ~disk[Head(paths)].isfile
    /\ paths' = Tail(paths)
    /\ written' = <<>>
    /\ last' = "SkipNotFile"
    /\ UNCHANGED <<pc, disk, fileVars, fileCount, blistedCount, ao, opened,
                   anomalousLines, lineHeaders, call, ret>>

\* A regular file: it is counted as excluded if its path is in the blacklist;
\* else it is read and decoded, a byte that cannot be decoded is reported
\* and the file left, and otherwise the line loop starts.
VisitFile ==
    /\ pc = "files"
    /\ paths # <<>>
    /\ disk[Head(paths)].isfile
    /\ paths' = Tail(paths)
    /\ last' = (IF Head(paths) \in blacklist THEN "Excluded" ELSE "VisitFile")
    /\ IF Head(paths) \in blacklist
       THEN /\ blistedCount' = blistedCount + 1
            /\ written' = <<>>
            /\ UNCHANGED <<pc, fileVars, fileCount, ao, opened, anomalousLines,
                           lineHeaders>>
       ELSE /\ path' = Head(paths)
            /\ fileCount' = fileCount + 1
            /\ opened' = opened \cup {Head(paths)}
            /\ textBytes' = disk[Head(paths)].bytes
            /\ UNCHANGED blistedCount
            /\ LET d == Decode(disk[Head(paths)].bytes)
               IN  IF d.invalidEncoding
                   THEN LET e == InvalidEncodingEvent(d)
                            r == Out(ao, Head(paths), e.lineNr, e.startColumn,
                                     e.endColumn, e.line, e.anomaly)
                        IN  /\ ao' = r.ao
                            /\ Record(<<r.w>>)
                            /\ pc' = "files"
                            /\ UNCHANGED <<lines, lineNr, firstDirectiveLine,
                                           validRedirectPresent>>
                   ELSE /\ lines' = Append(d.lines, d.line)
                        /\ lineNr' = 0
                        /\ firstDirectiveLine' = 1
                        /\ validRedirectPresent' = FALSE
                        /\ pc' = "lines"
                        /\ written' = <<>>
                        /\ UNCHANGED <<ao, anomalousLines, lineHeaders>>
    /\ UNCHANGED <<disk, call, ret>>

\* One pass of the line loop.
ScanLine ==
    /\ pc = "lines"
    /\ lineNr < Len(lines)
    /\ LET line == lines[lineNr + 1]
           s == LineScan(line, lineNr, firstDirectiveLine, validRedirectPresent)
           r == OutAll(ao, path, lineNr, line, s.events)
       IN  /\ ao' = r.ao
           /\ Record(r.w)
           /\ firstDirectiveLine' = s.firstDirectiveLine
           /\ validRedirectPresent' = s.validRedirectPresent
    /\ lineNr' = lineNr + 1
    /\ pc' = IF lineNr + 1 = Len(lines) THEN "files" ELSE "lines"
    /\ last' = "ScanLine"
    /\ UNCHANGED <<disk, paths, path, textBytes, lines, fileCount, blistedCount,
                   opened, call, ret>>

\* The loop over the paths has ended: the summary is written.
Finish ==
    /\ pc = "files"
    /\ paths = <<>>
    /\ pc' = "done"
    /\ written' = <<>>
    /\ last' = "Finish"
    /\ UNCHANGED <<disk, paths, fileVars, fileCount, blistedCount, ao, opened,
                   anomalousLines, lineHeaders, call, ret>>

\* "except KeyboardInterrupt": the loops are left and the summary is written.
Interrupt ==
    /\ pc \in {"files", "lines"}
    /\ pc' = "done"
    /\ written' = <<>>
    /\ last' = "Interrupt"
    /\ UNCHANGED <<disk, paths, fileVars, fileCount, blistedCount, ao, opened,
                   anomalousLines, lineHeaders, call, ret>>

Next ==
    \/ SkipNotFile
    \/ VisitFile
    \/ ScanLine
    \/ Finish
    \/ Interrupt

----------------------------------------------------------------------------
(* The files the scans are run on.                                         *)

MaxFileLines == 3     \* most lines of a file put together from RedirectLines
MaxPaths == 2         \* most entries of sourceDir

\* Lines that each detector and each of its branches reports or lets pass.
CuratedLines ==
    {<<"=", "=", "T", "i", "t", "l", "e", "=", "=">>,
     <<"=", "=", " ", "T", "i", "t", "l", "e", " ", "=", "=">>,
     <<"=", " ", "T", "i", "t", "l", "e", " ", "=", " ">>,
     <<"=", "a", "=">>,
     <<":", ")">>,
     <<";", ")">>,
     <<":", ":", " ", "x">>,
     <<";", "x">>,
     <<":", "-", ")">>,
     <<"#", "R", "E", "D", "I", "R", "E", "C", "T">>,
     <<"#", "R", "E", "D", "I", "R", "E", "C", "T", " ", "F", "o", "o">>,
     <<"*", "i", "t", "e", "m">>,
     <<"#", "#", "*", " ", "x">>,
     <<"#", "#", " ", "c">>,
     <<"#", "f", "o", "r", "m", "a", "t", " ", "w", "i", "k", "i">>,
     <<"#", "#", "#">>,
     <<"<", "b", ">", "x", "<", "/", "B", ">">>,
     <<"a", "<", "b", "r", ">", "b">>,
     <<"<", "<", "b", "r", ">", ">">>,
     <<"<", "b", "r", ">", "x", "<", "B", "R", ">">>,
     <<"<", "b", "r", ">", " ", "u", "p", "l", "o", "a", "d", ":", "f">>,
     <<"=", "<", "b", "r", ">", "=">>,
     <<"<", "<", "b", "r", ">", ">", " ", "[", "a", ":", "b", "]">>,
     <<"<", "<", "B", "R", ">", ">">>,
     <<"<", "<", "B", "r", ">", "BQ", ">", "x", "<", "BQ", "<", "b", "r", ">">>,
     <<"<", "/", "n", "o", "w", "i", "k", "i", ">">>,
     <<"[", "a", ":", "b", "]">>,
     <<"[", "\"", "A", "\"", "]">>,
     <<"[", "[", "A", "]", "]">>,
     <<"[", "[", "a", ":", "b", "]", "]", " ", "[", "c", ":", "d", "]">>,
     <<"[", "a">>,
     <<"u", "p", "l", "o", "a", "d", ":", "f">>,
     <<"s", "e", "e", " ", "u", "p", "l", "o", "a", "d", ":", "f", " ", "x">>,
     <<"U", "P", "L", "O", "A", "D", ":", "a", " ", "u", "p", "l", "o", "a", "d", ":", "b">>,
     <<" ", "=", "a">>,
     <<"=", "=", "=", "=", "=", "=", "=", " ", "x", " ", "=", "=", "=", "=", "=", "=", "=">>,
     <<"=", "=", "=", "=", "=", "=">>,
     <<"=", "#", "a", "=">>,
     <<"=", " ", "a", "'", "'", "b", " ", "=", "=">>,
     <<"=", " ", "a", "BQ", "BQ", " ", "=">>,
     <<"=", "a", " ", "=", " ", " ">>,
     <<"=", " ", "#", " ", "=">>,
     <<"a", "MARK">>,
     <<"MARK", "a">>,
     <<"NUL">>,
     <<"REPL">>,
     <<"a", "ZWJ", "TAB">>,
     <<>>,
     <<"t", "e", "x", "t">>,
     <<"a", "CR", "b">>}

\* Lines for the redirect state of a file.
RedirectLines ==
    {<<"t", "e", "x", "t">>,
     <<"#", "#", " ", "c">>,
     <<"#", "R", "E", "D", "I", "R", "E", "C", "T", " ", "F", "o", "o">>,
     <<"#", "R", "E", "D", "I", "R", "E", "C", "T">>,
     <<"#", "f", "o", "r", "m", "a", "t">>,
     <<>>,
     <<"*">>,
     <<":", ")">>}

\* The UTF-8 bytes of a codepoint.
Utf8Bytes(cp) ==
    CASE cp = "AACUTE" -> <<"xC3", "x81">>
      [] cp = "MARK" -> <<"xCC", "x81">>
      [] cp = "ZWJ" -> <<"xE2", "x80", "x8D">>
      [] cp = "REPL" -> <<"xEF", "xBF", "xBD">>
      [] OTHER -> <<cp>>

Encode(text) == Flatten([i \in 1..Len(text) |-> Utf8Bytes(text[i])])

\* The bytes of a file with the given lines, the last without a line feed.
RECURSIVE FileOf(_)
FileOf(ls) ==
    IF Len(ls) = 0 THEN <<>>
    ELSE IF Len(ls) = 1 THEN Encode(ls[1])
    ELSE Encode(ls[1]) \o <<"LF">> \o FileOf(Tail(ls))

\* Bytes of the generated files: ASCII, a line feed, a carriage return, a
\* lead byte, a continuation byte and a byte that is no UTF-8 at all.
GenBytes == {"a", "*", "=", " ", "LF", "CR", "xC3", "x81", "xFF"}

Corpus ==
    SeqsUpTo(GenBytes, MaxFileBytes)
    \cup {FileOf(<<l>>) : l \in CuratedLines}
    \cup {FileOf(ls) : ls \in SeqsUpTo(RedirectLines, MaxFileLines)}

\* Files for the scans of several files: empty, clean, with anomalies in
\* line 0, 1 or 2, with a byte that cannot be decoded, cut within a codepoint.
SmallCorpus ==
    {<<>>,
     <<"*">>,
     <<"a", "LF", "*">>,
     <<"*", "LF", "*">>,
     <<"a">>,
     <<"xFF">>,
     <<"*", "LF", "xFF">>,
     <<"*", "LF", "xC3">>,
     <<"#", "R", "E", "D", "I", "R", "E", "C", "T", " ", "F", "o", "o", "LF", "t", "e", "x", "t">>,
     <<"#", "R", "E", "D", "I", "R", "E", "C", "T", " ", "F", "o", "o", "LF",
       " ", "<", "b", "r", ">", " ">>,
     <<"a", "LF", "a", "LF", "*">>}

DirNames == {"A.txt", "B.txt", "HilfeZurCreoleSyntax.txt", "old.txt"}

\* os.path.isfile: old.txt is a directory.
IsFile(name) == name # "old.txt"

Distinct(seq) == \A i, j \in 1..Len(seq) : i # j => seq[i] # seq[j]

\* What glob.iglob can yield: the entries of sourceDir in any order.
Listings == {l \in SeqsUpTo(DirNames, MaxPaths) : Distinct(l)}

PathsOf(listing) == [i \in 1..Len(listing) |-> PathJoin(sourceDir, listing[i])]

InitScan(listing, files) ==
    /\ pc = "files"
    /\ paths = PathsOf(listing)
    /\ \E content \in [{i \in 1..Len(listing) : IsFile(listing[i])} -> files] :
          disk = [p \in Range(PathsOf(listing)) |->
                    LET i == CHOOSE i \in 1..Len(listing) : PathsOf(listing)[i] = p
                    IN  [isfile |-> IsFile(listing[i]),
                         bytes |-> IF IsFile(listing[i]) THEN content[i] ELSE <<>>]]
    /\ path = ""
    /\ textBytes = <<>>
    /\ lines = <<>>
    /\ lineNr = 0
    /\ firstDirectiveLine = 1
    /\ validRedirectPresent = FALSE
    /\ fileCount = 0
    /\ blistedCount = 0
    /\ ao = NewAnomalyOutputter(defaultCols)
    /\ written = <<>>
    /\ opened = {}
    /\ anomalousLines = {}
    /\ lineHeaders = 0
    /\ last = "init"
    /\ call = <<>>
    /\ ret = <<>>

\* A scan of the entries of sourceDir, each file out of SmallCorpus.
Init == \E listing \in Listings : InitScan(listing, SmallCorpus)

Spec == Init /\ [][Next]_vars

\* A scan of a directory and one file out of Corpus.
InitFile == InitScan(<<"old.txt", "A.txt">>, Corpus)

SpecFile == InitFile /\ [][Next]_vars

----------------------------------------------------------------------------
(* Claims about a scan.                                                    *)

\* The line the last pass of the line loop was about.
ScannedLine == lines[lineNr]

Scanned(line) == last = "ScanLine" /\ ScannedLine = line

\* What ao.out was given in the last step, without the line and the excerpt.
Given == [i \in 1..Len(written) |->
             Ev(written[i].startColumn, written[i].endColumn, written[i].anomaly)]

InvalidEncodingMsg == "UTF-8 invalid byte while decoding line!"

\* C3: every event given to ao.out during a scan, the report of a byte that
\* cannot be decoded included, has 0 <= startColumn <= endColumn <= the
\* number of codepoints of the line it is given with.
C3_ColumnsWithinLine ==
    \A i \in 1..Len(written) :
        /\ 0 <= written[i].startColumn
        /\ written[i].startColumn <= written[i].endColumn
        /\ written[i].endColumn <= Len(written[i].line)

\* C3, the part of it the detectors of the line loop keep: their events lie
\* within the line.
C3_DetectorColumnsWithinLine ==
    \A i \in 1..Len(written) :
        (written[i].anomaly # InvalidEncodingMsg) =>
            /\ 0 <= written[i].startColumn
            /\ written[i].startColumn <= written[i].endColumn
            /\ written[i].endColumn <= Len(written[i].line)

RedirectNoTarget == <<"#", "R", "E", "D", "I", "R", "E", "C", "T">>

\* A line that is neither empty nor a comment nor a directive.
IsContent(line) == line # <<>> /\ ~StartsWith(line, <<"#">>)

\* C4: #REDIRECT without a target as the first line of a file is reported as
\* "Redirect without target"; as the second line of a file whose first line
\* is non-comment content it is reported as "Redirect in non-first line".
C4_RedirectPlacement ==
    Scanned(RedirectNoTarget) =>
        /\ (lineNr = 1) =>
               Given = <<Ev(0, Len(RedirectNoTarget), "Redirect without target")>>
        /\ (lineNr = 2 /\ IsContent(lines[1])) =>
               \E i \in 1..Len(Given) : Given[i].anomaly = "Redirect in non-first line"

\* C4, its first half, which the code keeps.
C4_FirstLineWithoutTarget ==
    (Scanned(RedirectNoTarget) /\ lineNr = 1) =>
        Given = <<Ev(0, Len(RedirectNoTarget), "Redirect without target")>>

\* C5: a line that starts with the smiley :) or ;), in a file without a
\* valid redirect before it, is given no anomaly at all.
C5_SmileyNotReported ==
    (/\ last = "ScanLine"
     /\ \/ StartsWith(ScannedLine, <<":", ")">>)
        \/ StartsWith(ScannedLine, <<";", ")">>)
     /\ ~validRedirectPresent)
    => written = <<>>

Title == <<"=", "=", "T", "i", "t", "l", "e", "=", "=">>

Letters == Range(LowerSeq) \cup Range(UpperSeq)

\* An open tag of n <= 5 signs, letters, and a close tag of n signs.
TightHeadline(line, n) ==
    /\ n \in 1..5
    /\ Len(line) > 2 * n
    /\ \A i \in 1..Len(line) :
          IF i <= n \/ i > Len(line) - n THEN line[i] = "=" ELSE line[i] \in Letters

\* C6 as stated: the line ==Title== is given exactly one anomaly,
\* "Headline without whitespace after open tag" at column 2.
C6_TitleOneAnomaly ==
    Scanned(Title) =>
        Given = <<Ev(2, 3, "Headline without whitespace after open tag")>>

\* C6 as amended: a headline of letters between an open and a close tag of
\* the same length n <= 5, such as ==Title==, is given exactly two
\* anomalies: "Headline without whitespace after open tag" at the first
\* column of the text, and "Headline without whitespace before close tag" at
\* the first column of the close tag.
C6_TightHeadlineTwoAnomalies ==
    (last = "ScanLine" /\ ~validRedirectPresent) =>
        \A n \in 1..5 :
            TightHeadline(ScannedLine, n) =>
                Given = <<Ev(n, n + 1, "Headline without whitespace after open tag"),
                          Ev(Len(ScannedLine) - n, Len(ScannedLine) - n + 1,
                             "Headline without whitespace before close tag")>>

\* C6 witness: ==Title== has been scanned and given its two anomalies.
C6_Witness ==
    /\ Scanned(Title)
    /\ Len(written) = 2
    /\ written[1].startColumn = 2
    /\ written[2].startColumn = 7

\* Well-formed UTF-8: each lead byte followed by the continuation bytes it
\* announces.
RECURSIVE Utf8Valid(_)
Utf8Valid(bytes) ==
    \/ bytes = <<>>
    \/ LET n == SequenceLength(Head(bytes))
       IN  /\ n > 0
           /\ Len(bytes) >= n
           /\ \A k \in 2..n : bytes[k] \in ContBytes
           /\ Utf8Valid(SubSeq(bytes, n + 1, Len(bytes)))

\* C7: when the bytes of a file cannot be decoded, the visit of the file
\* gives ao.out exactly one event, the invalid byte at the line and the
\* column the decoding reached, runs no detector on the file, and the loop
\* goes on with the next path.
C7_DecodeFailureReported ==
    (last = "VisitFile" /\ ~Utf8Valid(textBytes)) =>
        /\ pc = "files"
        /\ Len(written) = 1
        /\ written[1].anomaly = InvalidEncodingMsg
        /\ written[1].path = path
        /\ written[1].lineNr = Len(Decode(textBytes).lines)
        /\ written[1].startColumn = Len(Decode(textBytes).line)

\* The paths of sourceDir that the exclusion set names.
Blacklisted == {PathJoin(sourceDir, name) : name \in blacklist}

\* C8: a file the exclusion set names is never opened, and once the loop
\* over the paths has ended it has been counted as excluded and not as
\* scanned.
C8_BlacklistedSkipped ==
    /\ opened \cap Blacklisted = {}
    /\ (last = "Finish") =>
          LET files == {p \in DOMAIN disk : disk[p].isfile}
          IN  /\ blistedCount = Cardinality(files \cap Blacklisted)
              /\ fileCount = Cardinality(files \ Blacklisted)

\* C9: the line counter of the outputter is the number of distinct
\* (path, line) pairs that were given an anomaly, and as many line headers
\* have been written, one for each pair.
C9_LineCountIsAnomalousLines ==
    /\ ao.lineCount = Cardinality(anomalousLines)
    /\ lineHeaders = Cardinality(anomalousLines)

\* A line classified as a comment: ## at its start, unless it is a list.
IsCommentLine(line) ==
    ~OldWikiListMatch(line).matched /\ StartsWith(line, <<"#", "#">>)

\* A line classified as a directive: a single # at its start, unless a list.
IsDirectiveLine(line) ==
    /\ ~OldWikiListMatch(line).matched
    /\ StartsWith(line, <<"#">>)
    /\ ~StartsWith(line, <<"#", "#">>)

\* #REDIRECT followed by a target.
IsRedirectWithTarget(line) ==
    RedirectMatch(line).matched /\ RedirectMatch(line).name # <<>>

\* C11: within a file, validRedirectPresent is true only if one of the lines
\* scanned so far is a #REDIRECT with a target and every line before it is a
\* comment: a redirect with target after a non-comment line never sets it.
C11_ValidRedirectOnlyFirst ==
    (last = "ScanLine" /\ validRedirectPresent) =>
        \E k \in 1..lineNr :
            /\ IsRedirectWithTarget(lines[k])
            /\ \A j \in 1..(k - 1) : IsCommentLine(lines[j])

\* C11, the part of it the code keeps: validRedirectPresent is true only if
\* one of the lines scanned so far is a #REDIRECT with a target.
C11_ValidRedirectNeedsTarget ==
    (last = "ScanLine" /\ validRedirectPresent) =>
        \E k \in 1..lineNr : IsRedirectWithTarget(lines[k])

AfterRedirectMsg == "Non-empty non-comment line after valid redirect"

\* Columns of the codepoints of a line that are no whitespace.
NonSpaceColumns(line) == {c \in 0..(Len(line) - 1) : At(line, c) \notin SpaceChars}

\* C12: once validRedirectPresent is true in a file, a later line that is no
\* comment, no directive and not blank is given the anomaly "Non-empty
\* non-comment line after valid redirect" from its first to its last
\* codepoint that is no whitespace, once and as the last event of the line
\* (no later detector adds one); and a file of which no line scanned before
\* is a redirect with a target is given no such anomaly, whatever the files
\* before it held.
C12_AfterValidRedirect ==
    (last = "ScanLine") =>
        /\ (/\ validRedirectPresent
            /\ ~IsCommentLine(ScannedLine)
            /\ ~IsDirectiveLine(ScannedLine)
            /\ NonSpaceColumns(ScannedLine) # {})
           => LET cols == NonSpaceColumns(ScannedLine)
                  first == CHOOSE c \in cols : \A d \in cols : c <= d
                  lastCol == CHOOSE c \in cols : \A d \in cols : d <= c
              IN  /\ Given # <<>>
                  /\ Given[Len(Given)] = Ev(first, lastCol + 1, AfterRedirectMsg)
                  /\ \A i \in 1..(Len(Given) - 1) : Given[i].anomaly # AfterRedirectMsg
        /\ (\A k \in 1..(lineNr - 1) : ~IsRedirectWithTarget(lines[k]))
           => \A i \in 1..Len(Given) : Given[i].anomaly # AfterRedirectMsg

\* C12 witness: the second file scanned has a line with whitespace around
\* its content after its redirect, reported once, without the whitespace
\* and with no anomaly for the linebreak tag in it; the file before it was
\* given anomalies of other kinds only.
C12_Witness ==
    /\ last = "ScanLine"
    /\ fileCount = 2
    /\ validRedirectPresent
    /\ ScannedLine = <<" ", "<", "b", "r", ">", " ">>
    /\ Given = <<Ev(1, 5, AfterRedirectMsg)>>
    /\ ao.anomalyCounts[AfterRedirectMsg] = 1
    /\ ao.anomalyCount > 1

\* A line that gets to the detectors after the first-char check: no comment,
\* no directive, no : or ; at its start, in a file without a valid redirect.
ReachesContentChain(line) ==
    /\ ~validRedirectPresent
    /\ ~IsCommentLine(line)
    /\ ~IsDirectiveLine(line)
    /\ ~StartsWith(line, <<":">>)
    /\ ~StartsWith(line, <<";">>)

\* <br> in any case at column p, with no further <, > or BQ around it.
SimpleBr(line, p) ==
    /\ p + 4 <= Len(line)
    /\ At(line, p) = "<"
    /\ Lower(At(line, p + 1)) = "b"
    /\ Lower(At(line, p + 2)) = "r"
    /\ At(line, p + 3) = ">"
    /\ (p > 0) => (At(line, p - 1) \notin {"<", "BQ"})
    /\ (p + 4 < Len(line)) => (At(line, p + 4) \notin {">", "BQ"})

\* An open tag of n <= 5 signs, a text without =, whitespace, numbering
\* indicator or quote marks, and a close tag of n signs.
TightHeadlineAround(line, n) ==
    /\ n \in 1..5
    /\ Len(line) > 2 * n
    /\ \A i \in 1..Len(line) :
          IF i <= n \/ i > Len(line) - n THEN line[i] = "="
          ELSE line[i] \notin {"=", "#", "*", "BQ", "'"} \cup SpaceChars

\* The first [ of the line at column p, then letters and colons with a colon
\* among them, then a single ] before column e.
SimpleExternalLink(line, p, e) ==
    /\ p + 2 < e
    /\ e <= Len(line)
    /\ At(line, p) = "["
    /\ \A q \in 0..(p - 1) : At(line, q) # "["
    /\ \A q \in (p + 1)..(e - 2) : At(line, q) \in Letters \cup {":"}
    /\ \E q \in (p + 1)..(e - 2) : At(line, q) = ":"
    /\ At(line, e - 1) = "]"
    /\ (e < Len(line)) => (At(line, e) \notin {"]", "BQ"})

\* The first upload: of the line at column p, at the start of the line or
\* after whitespace, with a link text up to column e.
FirstUpload(line, p, e) ==
    /\ HasAt(line, p, <<"u", "p", "l", "o", "a", "d", ":">>)
    /\ \A q \in 0..(p - 1) : ~HasAt(line, q, <<"u", "p", "l", "o", "a", "d", ":">>)
    /\ (p > 0) => (At(line, p - 1) \in SpaceChars)
    /\ p + 7 < e
    /\ e <= Len(line)
    /\ \A q \in (p + 7)..(e - 1) : At(line, q) \notin SpaceChars
    /\ (e < Len(line)) => (At(line, e) \in SpaceChars)

IsLinebreakMsg(anomaly) == anomaly \in {"Old wiki linebreak", "Invalid linebreak"}

\* The event e is given after a linebreak anomaly of the line.
GivenAfterLinebreak(e) ==
    \E i, j \in 1..Len(Given) :
        i < j /\ IsLinebreakMsg(Given[i].anomaly) /\ Given[j] = e

\* C13 as stated: after the first linebreak anomaly of a line no further
\* anomaly of the line is a linebreak, headline, link or upload anomaly.
C13_FirstLinebreakStopsChain ==
    (last = "ScanLine") =>
        \A i, j \in 1..Len(Given) :
            (i < j /\ IsLinebreakMsg(Given[i].anomaly)) =>
                Given[j].anomaly \notin
                    {"Old wiki linebreak", "Invalid linebreak",
                     "Headline without whitespace after open tag",
                     "Headline without whitespace before close tag",
                     "Headline without close tag",
                     "Headline contains no text",
                     "Headline ends with whitespace",
                     "Headline starts with whitespace",
                     "Headline of level > 5",
                     "Headline text contains markup",
                     "Headline with old numbering indicator",
                     "Headline with different length open and close tags",
                     "Fail-converted unnamed internal link",
                     "Fail-converted external link",
                     "Old wiki upload link"}

\* C13 as amended: a linebreak match does not stop the chain for the line.
\* On a line that gets to the chain, every <br> that stands alone is given
\* its own "Old wiki linebreak"; and if the line has a linebreak anomaly,
\* the headline, link and upload detectors still run after it: a headline
\* with tags of one length tight around its text is given its two
\* whitespace anomalies, the first [letters:letters] link its
\* "Fail-converted external link" and the first upload: link its "Old wiki
\* upload link".
C13_LinebreakDoesNotStopChain ==
    (last = "ScanLine" /\ ReachesContentChain(ScannedLine)) =>
        LET line == ScannedLine
            n == Len(line)
        IN  /\ \A p \in 0..n :
                  SimpleBr(line, p) =>
                      \E i \in 1..Len(Given) : Given[i] = Ev(p, p + 4, "Old wiki linebreak")
            /\ (\E i \in 1..Len(Given) : IsLinebreakMsg(Given[i].anomaly)) =>
                  /\ \A k \in 1..5 :
                        TightHeadlineAround(line, k) =>
                            /\ GivenAfterLinebreak(
                                   Ev(k, k + 1, "Headline without whitespace after open tag"))
                            /\ GivenAfterLinebreak(
                                   Ev(n - k, n - k + 1,
                                      "Headline without whitespace before close tag"))
                  /\ \A p, e \in 0..n :
                        SimpleExternalLink(line, p, e) =>
                            GivenAfterLinebreak(Ev(p, e, "Fail-converted external link"))
                  /\ \A p, e \in 0..n :
                        FirstUpload(line, p, e) =>
                            GivenAfterLinebreak(Ev(p, e, "Old wiki upload link"))

\* C13 witness: a line with a linebreak anomaly followed by a link anomaly.
C13_Witness ==
    /\ last = "ScanLine"
    /\ ReachesContentChain(ScannedLine)
    /\ Len(Given) = 2
    /\ Given[1].anomaly = "Invalid linebreak"
    /\ Given[2].anomaly = "Fail-converted external link"
    /\ Given[1].endColumn < Given[2].startColumn

====
